---- MODULE Spec2Model ----
(***************************************************************************)
(* Model of fc_permute_mnist.py: the continual-learning driver for the     *)
(* permuted-MNIST experiment (main, train_task_sequence,                   *)
(* test_task_sequence, normalize_tensors).                                 *)
(*                                                                         *)
(* The predictor (model.py) is an external collaborator: a training step   *)
(* is a call that advances its parameters and returns a loss value.  The   *)
(* buffer utilities of utils/er_utils.py are called by the driver but      *)
(* their text is not part of the sources at hand; they are modelled from   *)
(* the design document and from the arguments the driver passes to them.   *)
(*                                                                         *)
(* An example is a record [t, r, y, val]: row r of the shuffled training   *)
(* split of task t, with class label y; val tells a raw image from a       *)
(* synthesized one.  A memory array is a function from the                 *)
(* indices that have been written to the examples stored there: an index   *)
(* outside its DOMAIN still holds the zero row np.zeros put there.         *)
(***************************************************************************)
EXTENDS Integers, Sequences, FiniteSets, TLC

VARIABLES
    args,                     \* parsed command line (get_arguments)
    pc,                       \* position of the driver
    config_error,             \* which ValueError main raised ("none" if none)
    np_seed,                  \* argument of the last np.random.seed call
    runid, task, iters,       \* the three loop indices
    train_y,                  \* labels of the shuffled, truncated split of the task
    episodic_images,          \* episodic memory (images and labels, same index)
    count_cls,                \* per-class write cursor of the episodic FIFO
    episodic_filled_counter,  \* driver's count of filled episodic slots
    examples_seen_so_far,     \* reservoir stream length
    anchor_images,            \* anchor buffer (images and labels, same index)
    anchor_count_cls,         \* per-class write cursor used for task-0 anchors
    avg_img_vectors,          \* per-class running average image (its contributors)
    loss,                     \* the local variable loss
    step_losses,              \* the losses the training steps of the iteration returned
    theta,                    \* the external model's parameters (their version)
    star_vars,                \* the parameters the external model has stored
    task_updates_calls,       \* the model.task_updates calls of the run, in order
    er_mem_indices,           \* memory indices sampled in the last iteration
    anchor_mem_indices,       \* anchor indices sampled in the last iteration
    ops,                      \* external-model / buffer calls of the last iteration
    ftask, evals, runs,       \* accuracy bookkeeping
    offered,                  \* history: per class, examples offered to the FIFO in this task
    anchor_writes,            \* history: per anchor slot, the <<task, phase>> of each write
    draws                     \* history: reservoir draws of the last iteration

vars == << args, pc, config_error, np_seed, runid, task, iters, train_y,
           episodic_images, count_cls, episodic_filled_counter,
           examples_seen_so_far, anchor_images, anchor_count_cls,
           avg_img_vectors, loss, step_losses, theta, star_vars,
           task_updates_calls,
           er_mem_indices, anchor_mem_indices, ops,
           ftask, evals, runs, offered, anchor_writes, draws >>

(***************************************************************************)
(* Sizes.  The program runs 20 tasks (3 under --online-cross-val) of 10    *)
(* classes, 10 times over; two tasks, two classes and two runs are kept    *)
(* here: they give a first task and a later one, a class with and without  *)
(* resident examples, and a run that follows another.                      *)
(* The command-line values are small numbers chosen so that a mini-batch   *)
(* can be short, a class ring can wrap and the reservoir can overflow.     *)
(***************************************************************************)
Tasks == 0 .. 1
Classes == 0 .. 1
Runs == 0 .. 1
TOTAL_CLASSES == Cardinality(Classes)
NUM_RUNS == Cardinality(Runs)
SAMPLES_PER_CLASS == 2
BATCH_SIZE == 2
EXAMPLES_PER_TASK == 3
EPS_MEM_BATCH_SIZE == 1
RANDOM_SEED == 1234

\* --train-iters: one iteration more than an epoch takes, so that the
\* mini-batches wrap around the split.
TRAIN_ITERS == ((EXAMPLES_PER_TASK + BATCH_SIZE - 1) \div BATCH_SIZE) + 1

MODELS == { "VAN", "PI", "EWC", "MAS", "RWALK", "A-GEM", "S-GEM", "FTR_EXT",
            "MER", "ER-Reservoir", "ER-Ring", "ER-Hindsight-Anchors" }
VALID_OPTIMS == { "SGD", "MOMENTUM", "ADAM" }
VALID_ARCHS == { "FC-S", "FC-B" }
MULTI_TASK == FALSE
MEASURE_PERF_ON_EPS_MEMORY == FALSE

Rows == 0 .. (EXAMPLES_PER_TASK - 1)

\* What the external model can hand back as a loss; "inf" stands for either
\* infinity (math.isnan is false of both).
LossValues == { "finite", "nan", "inf" }

Min(a, b) == IF a <= b THEN a ELSE b

\* a[i] = e on a memory array
Put(mem, i, e) == [ j \in (DOMAIN mem) \cup {i} |-> IF j = i THEN e ELSE mem[j] ]

\* The k-element subsets of 0 .. n-1 (np.random.choice(n, k, replace=False)).
RECURSIVE Choose(_, _)
Choose(n, k) ==
    IF k = 0 THEN { {} }
    ELSE IF n < k THEN {}
    ELSE Choose(n - 1, k) \cup { S \cup {n - 1} : S \in Choose(n - 1, k - 1) }

(***************************************************************************)
(* Derived quantities of train_task_sequence.                              *)
(***************************************************************************)
batch_size == BATCH_SIZE
num_tasks == Cardinality(Tasks)
mem_size == SAMPLES_PER_CLASS
eps_mem_batch == EPS_MEM_BATCH_SIZE

use_episodic_memory ==
    \/ args.imp_method = "A-GEM"
    \/ args.imp_method = "MER"
    \/ args.imp_method \in { "ER-Reservoir", "ER-Ring", "ER-Hindsight-Anchors" }

episodic_mem_size == mem_size * num_tasks * TOTAL_CLASSES

num_train_examples == EXAMPLES_PER_TASK

\* Mutant of num_iters: cross-validation trains for the fixed iteration count.
num_iters_by_mode ==
    IF args.train_single_epoch /\ ~args.cross_validate_mode
    THEN (num_train_examples + batch_size - 1) \div batch_size
    ELSE TRAIN_ITERS

\* (num_train_examples + batch_size - 1) // batch_size, for a split of n rows
\* and a batch size b
single_epoch_iters(n, b) == (n + b - 1) \div b

\* Mutant of num_iters: the short mini-batch that ends the epoch is left out.
num_iters_whole_batches ==
    IF args.train_single_epoch
    THEN num_train_examples \div batch_size
    ELSE TRAIN_ITERS

num_iters ==
    IF args.train_single_epoch
    THEN single_epoch_iters(num_train_examples, batch_size)
    ELSE TRAIN_ITERS

\* offset and residual of iteration it, for a split of n rows and a batch
\* size b
offset_at(it, n, b) == (it * b) % n

residual_at(it, n, b) ==
    IF offset_at(it, n, b) + b <= n THEN b ELSE n - offset_at(it, n, b)

offset(it) == offset_at(it, num_train_examples, batch_size)

\* Mutant of residual: every mini-batch is taken to be a full one.
residual_whole(it) == batch_size

residual(it) == residual_at(it, num_train_examples, batch_size)

\* train_x[lo:hi], train_y[lo:hi] as a sequence of examples (a Python slice
\* stops at the end of the array).
Slice(lo, hi) ==
    LET top == Min(hi, num_train_examples)
    IN  [ i \in 1 .. (IF top > lo THEN top - lo ELSE 0) |->
            [ t |-> task, r |-> lo + i - 1, y |-> train_y[lo + i - 1],
              val |-> "raw" ] ]

\* Mutant of task_train_images: the shuffled, truncated split train_x.
train_x ==
    [ task |-> task, order |-> "perm", rows |-> "examples_per_task" ]

\* task_train_images = datasets[task]['train']['images']: the training inputs
\* of the task as the dataset has them, in its order and all of them.
task_train_images ==
    [ task |-> task, order |-> "dataset", rows |-> "all" ]

\* The rows handed to the memory updates: train_x[offset:offset+residual].
OfferedRows == Slice(offset(iters), offset(iters) + residual(iters))

\* The rows of the current task fed to the training step:
\* train_x[offset:offset+batch_size].
FedRows == Slice(offset(iters), offset(iters) + batch_size)

\* The rows of the current task in the feed the replay strategies build for
\* themselves: train_x[offset:offset+residual], after the memory rows in the
\* joint batches and alone in the last step of MER.
ReplayFedRows == Slice(offset(iters), offset(iters) + residual(iters))

\* The rows of the current task the training step of the strategy is fed.
TaskRowsFed ==
    IF args.imp_method \in { "ER-Reservoir", "MER", "ER-Ring", "ER-Hindsight-Anchors" }
    THEN ReplayFedRows
    ELSE FedRows

snapshot_now ==
    /\ args.train_single_epoch
    /\ ~args.cross_validate_mode
    /\ \/ iters < 10
       \/ (iters < 100 /\ iters % 10 = 0)
       \/ iters % 100 = 0

(***************************************************************************)
(* utils/er_utils.py, as the driver uses it.                               *)
(***************************************************************************)

\* update_fifo_buffer(images, labels, episodic_images, episodic_labels,
\*                    task_labels, mem_per_class, count_cls, episodic_filled_counter)
\* Each example goes to the ring of its class: the mem_per_class slots that
\* start at episodic_filled_counter + mem_per_class * class.  count_cls is the
\* caller's array and is advanced in place; episodic_filled_counter is an
\* integer passed by value, so the caller's copy stays as it was.
\* The result also lists the indices written, in order.
RECURSIVE update_fifo_buffer(_, _, _, _, _)
update_fifo_buffer(images, mem, mem_per_class, cnt, filled_counter) ==
    IF images = << >>
    THEN [ mem |-> mem, cnt |-> cnt, written |-> << >> ]
    ELSE LET e == Head(images)
             cls == e.y
             mem_index == filled_counter + mem_per_class * cls + cnt[cls]
             rest == update_fifo_buffer(
                         Tail(images), Put(mem, mem_index, e), mem_per_class,
                         [ cnt EXCEPT ![cls] = (@ + 1) % mem_per_class ],
                         filled_counter)
         IN  [ rest EXCEPT !.written = << mem_index >> \o @ ]

\* update_reservior(images, labels, episodic_images, episodic_labels, M, N):
\* the set of possible results, one per sequence of random draws.  While the
\* buffer is not full the example is appended; afterwards an index j is drawn
\* among the N + 1 examples seen including this one and slot j is overwritten
\* when j < M.  N is incremented for every example; the new N is returned.
\* draws lists j per example (-1 where nothing was drawn).
RECURSIVE update_reservior(_, _, _, _)
update_reservior(images, mem, M, N) ==
    IF images = << >>
    THEN { [ mem |-> mem, N |-> N, draws |-> << >> ] }
    ELSE LET e == Head(images)
             firsts ==
                 IF M > N
                 THEN { [ mem |-> Put(mem, N, e), j |-> -1 ] }
                 ELSE { [ mem |-> IF j < M THEN Put(mem, j, e) ELSE mem,
                          j |-> j ] : j \in 0 .. N }
         IN  UNION { { [ o EXCEPT !.draws = << f.j >> \o @ ] :
                         o \in update_reservior(Tail(images), f.mem, M, N + 1) } :
                     f \in firsts }

\* update_avg_image_vectors(images, labels, avg_img_vectors, running_alpha):
\* an exponential moving average per class; the average of a class is
\* represented by the rows that have been blended into it (none: zero vector).
RECURSIVE update_avg_image_vectors(_, _)
update_avg_image_vectors(images, avg) ==
    IF images = << >> THEN avg
    ELSE LET e == Head(images)
         IN  update_avg_image_vectors(
                 Tail(images), [ avg EXCEPT ![e.y] = @ \cup { << e.t, e.r >> } ])

\* er_mem_update_hindsight(...): one synthesized input per class, the zero
\* vector for a class with no resident example in the episodic memory.
er_mem_update_hindsight(mem) ==
    [ c \in Classes |->
        [ t |-> task, r |-> -1, y |-> c,
          val |-> IF \E i \in DOMAIN mem : mem[i].y = c THEN "synth" ELSE "zero" ] ]

(***************************************************************************)
(* normalize_tensors: a[i] = (a[i] - min) / (max - min) per row.  A        *)
(* synthesized row with distinct entries becomes a row with minimum 0 and  *)
(* maximum 1; a constant row divides 0 by 0, which numpy evaluates to NaN  *)
(* in every entry (a warning, not an exception).                           *)
(***************************************************************************)
normalize_tensors(a) ==
    [ c \in DOMAIN a |->
        [ a[c] EXCEPT !.val = IF a[c].val = "zero" THEN "nan" ELSE "unit" ] ]

(***************************************************************************)
(* The arguments of the driver's buffer calls.                             *)
(***************************************************************************)
\* Mutant of anchors_counter: the block after the task's own.
anchors_counter_next == (task + 1) * TOTAL_CLASSES

\* anchors_counter = task*TOTAL_CLASSES
anchors_counter == task * TOTAL_CLASSES

\* Mutant of EpisodicRing: one slot too many per class.
EpisodicRingWide == mem_size + 1

\* mem_per_class of the episodic FIFO calls: args.mem_size
EpisodicRing == mem_size

\* Mutant of AnchorRing: the ring size of the episodic memory.
AnchorRingAsEpisodic == mem_size

\* mem_per_class of the task-0 anchor call: the literal 1
AnchorRing == 1

\* Mutant of ReservoirCapacity: a capacity one past the allocated array.
ReservoirCapacityWide == episodic_mem_size + 1

\* M of the reservoir calls: episodic_mem_size
ReservoirCapacity == episodic_mem_size

\* mem_filled_so_far
mem_filled_so_far(filled) ==
    IF filled <= episodic_mem_size THEN filled ELSE episodic_mem_size

\* np.arange(n) if n <= eps_mem_batch else np.random.choice(n, eps_mem_batch,
\* replace=False): the possible samples, as sets of indices
MemSamples(n) ==
    IF n <= eps_mem_batch THEN { 0 .. (n - 1) } ELSE Choose(n, eps_mem_batch)

\* History kept for the claims: the examples of each class offered to the
\* episodic FIFO in the current task, oldest first.
RECURSIVE Record(_, _)
Record(images, hist) ==
    IF images = << >> THEN hist
    ELSE Record(Tail(images),
                [ hist EXCEPT ![Head(images).y] = Append(@, Head(images)) ])

\* History kept for the claims: one << task, phase >> entry per write of a slot.
RECURSIVE Note(_, _, _)
Note(written, phase, log) ==
    IF written = << >> THEN log
    ELSE LET i == Head(written)
             old == IF i \in DOMAIN log THEN log[i] ELSE << >>
         IN  Note(Tail(written), phase, Put(log, i, Append(old, << task, phase >>)))

(***************************************************************************)
(* main: argument checks, then train_task_sequence.                        *)
(***************************************************************************)
Methods == MODELS \cup { "GEM" }

\* One valid and one invalid value of the two options the driver does not
\* branch on; every strategy name, and one name that is not in MODELS.
ArgSets ==
    [ arch : { "FC-S", "FC-X" },
      imp_method : Methods,
      optim : { "SGD", "RMSPROP" },
      train_single_epoch : BOOLEAN,
      cross_validate_mode : BOOLEAN ]

ZeroCounts == [ c \in Classes |-> 0 ]
NoAverage == [ c \in Classes |-> {} ]
NoHistory == [ c \in Classes |-> << >> ]

Init ==
    /\ args \in ArgSets
    /\ pc = "main"
    /\ config_error = "none"
    /\ np_seed = -1
    /\ runid = 0 /\ task = 0 /\ iters = 0
    /\ train_y = [ r \in Rows |-> 0 ]
    /\ episodic_images = << >>
    /\ count_cls = ZeroCounts
    /\ episodic_filled_counter = 0
    /\ examples_seen_so_far = 0
    /\ anchor_images = << >>
    /\ anchor_count_cls = ZeroCounts
    /\ avg_img_vectors = NoAverage
    /\ loss = "unbound"
    /\ step_losses = {}
    /\ theta = 0 /\ star_vars = 0 /\ task_updates_calls = << >>
    /\ er_mem_indices = {}
    /\ anchor_mem_indices = {}
    /\ ops = << >>
    /\ ftask = << >> /\ evals = << >> /\ runs = << >>
    /\ offered = NoHistory
    /\ anchor_writes = << >>
    /\ draws = << >>

run_vars == << np_seed, runid, task, iters, train_y >>
mem_vars == << episodic_images, count_cls, episodic_filled_counter,
               examples_seen_so_far, offered, draws >>
anchor_vars == << anchor_images, anchor_count_cls, avg_img_vectors, anchor_writes >>
sample_vars == << er_mem_indices, anchor_mem_indices >>
acc_vars == << ftask, evals, runs >>
model_vars == << theta, star_vars, task_updates_calls >>

\* Mutant of Main: the optimizer name is not checked.
MainWithoutOptimCheck ==
    /\ pc = "main"
    /\ IF args.arch \notin VALID_ARCHS
       THEN pc' = "config_error" /\ config_error' = "arch"
       ELSE IF args.imp_method \notin MODELS
       THEN pc' = "config_error" /\ config_error' = "imp_method"
       ELSE pc' = "run_start" /\ config_error' = "none"
    /\ ops' = IF pc' = "run_start" THEN << "snapshot_experiment_meta_data" >> ELSE << >>
    /\ UNCHANGED << args, run_vars, mem_vars, anchor_vars, sample_vars, acc_vars,
                    loss, step_losses, model_vars >>

\* main, up to the call of train_task_sequence: the three checks, in the
\* order of the source, each raising ValueError.
Main ==
    /\ pc = "main"
    /\ IF args.arch \notin VALID_ARCHS
       THEN pc' = "config_error" /\ config_error' = "arch"
       ELSE IF args.imp_method \notin MODELS
       THEN pc' = "config_error" /\ config_error' = "imp_method"
       ELSE IF args.optim \notin VALID_OPTIMS
       THEN pc' = "config_error" /\ config_error' = "optim"
       ELSE pc' = "run_start" /\ config_error' = "none"
    /\ ops' = IF pc' = "run_start" THEN << "snapshot_experiment_meta_data" >> ELSE << >>
    /\ UNCHANGED << args, run_vars, mem_vars, anchor_vars, sample_vars, acc_vars,
                    loss, step_losses, model_vars >>

(***************************************************************************)
(* The external model, as far as the driver can tell: its parameters are   *)
(* a version number that every training step advances; init_updates and    *)
(* task_updates store the current parameters and restore puts the stored   *)
(* ones back (model.py is not part of the sources at hand).                *)
(***************************************************************************)
\* Model.init_updates, and the end of Model.task_updates: the stored parameters
set_star_vars == theta

\* Model.restore: the parameters after the call
restore == star_vars

\* Mutant of test_task_sequence: only the tasks trained so far are measured.
test_task_sequence_trained ==
    [ k \in 1 .. (task + 1) |->
        [ task |-> k - 1, theta |-> theta,
          on |-> IF MEASURE_PERF_ON_EPS_MEMORY THEN "memory" ELSE "test" ] ]

\* test_task_sequence(model, sess, test_data, cross_validate_mode): list_acc,
\* one accuracy per task index, in task order.  An accuracy is that of the
\* current parameters on the test split of the task or, when
\* MEASURE_PERF_ON_EPS_MEMORY, on the task's block of the memory passed in.
\* The function assigns nothing but its local list.
test_task_sequence ==
    [ k \in 1 .. num_tasks |->
        [ task |-> k - 1, theta |-> theta,
          on |-> IF MEASURE_PERF_ON_EPS_MEMORY THEN "memory" ELSE "test" ] ]

\* Mutant of RunSeed: the same seed for every run.
RunSeedBase == RANDOM_SEED

\* args.random_seed+runid
RunSeed == RANDOM_SEED + runid

\* Mutant of zeros_episodic: the memory array of the run before is kept.
episodic_of_last_run == episodic_images

\* np.zeros([episodic_mem_size, INPUT_FEATURE_SIZE]): a memory array in which
\* nothing has been written.
zeros_episodic == << >>

\* Top of the loop over runs: seed, fresh memory, fresh accuracy list.
StartRun ==
    /\ pc = "run_start"
    /\ np_seed' = RunSeed
    /\ evals' = << >>
    /\ IF use_episodic_memory
       THEN /\ episodic_images' = zeros_episodic
            /\ count_cls' = ZeroCounts
            /\ episodic_filled_counter' = 0
            /\ examples_seen_so_far' = 0
       ELSE UNCHANGED << episodic_images, count_cls, episodic_filled_counter,
                         examples_seen_so_far >>
    /\ IF use_episodic_memory /\ args.imp_method = "ER-Hindsight-Anchors"
       THEN /\ avg_img_vectors' = NoAverage
            /\ anchor_images' = << >>
            /\ anchor_count_cls' = ZeroCounts
       ELSE UNCHANGED << avg_img_vectors, anchor_images, anchor_count_cls >>
    /\ offered' = NoHistory /\ anchor_writes' = << >> /\ draws' = << >>
    /\ task' = 0
    /\ pc' = "load"
    /\ ops' = << "construct_permute_mnist", "global_variables_initializer",
                  "init_updates" >>
    /\ theta' = 0
    /\ star_vars' = 0
    /\ task_updates_calls' = << >>
    /\ UNCHANGED << args, config_error, runid, iters, train_y, sample_vars,
                    ftask, runs, loss, step_losses >>

\* Mutant of restore_weights: the stored parameters are put back before
\* every task.
restore_weights_always == TRUE

\* if(task > 0): model.restore(sess)
restore_weights == task > 0

\* Top of the loop over tasks: restore, shuffle and truncate the split.
LoadTask ==
    /\ pc = "load"
    /\ ops' = IF restore_weights THEN << "restore" >> ELSE << >>
    /\ theta' = IF restore_weights THEN restore ELSE theta
    /\ train_y' \in [ Rows -> Classes ]
    /\ ftask' = << >>
    /\ iters' = 0
    /\ offered' = NoHistory
    /\ pc' = IF num_iters > 0 THEN "train" ELSE "after_train"
    /\ UNCHANGED << args, config_error, np_seed, runid, task, episodic_images,
                    count_cls, episodic_filled_counter, examples_seen_so_far,
                    draws, anchor_vars, sample_vars, evals, runs, loss, step_losses,
                    star_vars, task_updates_calls >>

(***************************************************************************)
(* One training iteration: the body of the loop over iters, in three       *)
(* steps: the training step of the strategy (with the snapshot and the     *)
(* memory sample that precede it), the buffer updates that follow it, and  *)
(* the report and NaN test that end the iteration.                         *)
(* er_mem_indices, anchor_mem_indices, draws and step_losses are           *)
(* meaningful from the step that sets them to the end of the iteration;    *)
(* they are emptied afterwards.                                            *)
(***************************************************************************)
\* The snapshot taken before the step in single-epoch mode.
Snapshot ==
    /\ ftask' = IF snapshot_now THEN Append(ftask, test_task_sequence) ELSE ftask
    /\ UNCHANGED << evals, runs >>

SnapshotOps == IF snapshot_now THEN << "test_task_sequence" >> ELSE << >>

loop_vars == << args, config_error, np_seed, runid, task, iters, train_y >>

FISHER_UPDATE_AFTER == 10

NoMemoryOps ==
    CASE args.imp_method = "VAN" -> << "train" >>
      [] args.imp_method = "FTR_EXT" ->
            IF task = 0 THEN << "train" >> ELSE << "train_classifier" >>
      [] args.imp_method = "EWC" ->
            (IF task = 0 /\ iters = 0 THEN << "set_initial_running_fisher" >> ELSE << >>)
            \o (IF (iters + 1) % FISHER_UPDATE_AFTER = 0
                THEN << "set_running_fisher", "reset_tmp_fisher" >> ELSE << >>)
            \o << "set_tmp_fisher", "train" >>
      [] args.imp_method = "PI" ->
            << "weights_old_ops_grouped", "train", "update_small_omega" >>
      [] args.imp_method = "MAS" -> << "train" >>
      [] args.imp_method = "RWALK" ->
            (IF task = 0 /\ iters = 0
             THEN << "set_initial_running_fisher", "weights_delta_old_grouped" >>
             ELSE << >>)
            \o (IF (iters + 1) % FISHER_UPDATE_AFTER = 0
                THEN << "update_big_omega_riemann", "set_running_fisher",
                        "weights_delta_old_grouped", "reset_small_omega" >>
                ELSE << >>)
            \o << "set_tmp_fisher", "weights_old_ops_grouped", "train",
                  "update_small_omega" >>

\* VAN, FTR_EXT, EWC, PI, MAS, RWALK: the current batch only, no memory.
TrainNoMemory ==
    /\ pc = "train"
    /\ args.imp_method \in { "VAN", "FTR_EXT", "EWC", "PI", "MAS", "RWALK" }
    /\ Snapshot
    /\ ops' = SnapshotOps \o NoMemoryOps
    /\ loss' \in LossValues
    /\ step_losses' = { loss' }
    /\ theta' = theta + 1
    /\ UNCHANGED << star_vars, task_updates_calls >>
    /\ pc' = "check"
    /\ UNCHANGED << loop_vars, mem_vars, anchor_vars, sample_vars >>

\* Mutant of AGEMOps: the projecting step runs before the reference gradient
\* of the iteration is stored.
AGEMOpsStepFirst ==
    IF task = 0 THEN << "train_first_task" >>
    ELSE << "sample", "train_subseq_tasks", "store_ref_grads" >>

\* The external-model calls of an A-GEM iteration, in order.
AGEMOps ==
    IF task = 0 THEN << "train_first_task" >>
    ELSE << "sample", "store_ref_grads", "train_subseq_tasks" >>

\* A-GEM: in later tasks a memory sample gives the reference gradient first.
TrainAGEM ==
    /\ pc = "train"
    /\ args.imp_method = "A-GEM"
    /\ Snapshot
    /\ IF task = 0
       THEN er_mem_indices' = {}
       ELSE er_mem_indices' \in MemSamples(episodic_filled_counter)
    /\ ops' = SnapshotOps \o AGEMOps
    /\ loss' \in LossValues
    /\ step_losses' = { loss' }
    /\ theta' = theta + 1
    /\ UNCHANGED << star_vars, task_updates_calls >>
    /\ pc' = "update"
    /\ UNCHANGED << loop_vars, mem_vars, anchor_vars, anchor_mem_indices >>

\* ER-Reservoir: one joint step on the memory sample and the batch.
TrainERReservoir ==
    /\ pc = "train"
    /\ args.imp_method = "ER-Reservoir"
    /\ Snapshot
    /\ er_mem_indices' \in MemSamples(mem_filled_so_far(examples_seen_so_far))
    /\ ops' = SnapshotOps \o << "sample", "train" >>
    /\ loss' \in LossValues
    /\ step_losses' = { loss' }
    /\ theta' = theta + 1
    /\ UNCHANGED << star_vars, task_updates_calls >>
    /\ pc' = "update"
    /\ UNCHANGED << loop_vars, mem_vars, anchor_vars, anchor_mem_indices >>

\* The losses the training steps of a MER iteration can return when the
\* step on the batch, the last, returns l: l alone when no memory example was
\* sampled, and otherwise l with the loss m of the per-example steps before
\* it (taken to agree with one another), each assigned to the same local
\* variable.
MerStepLosses(n, l) ==
    IF n = 0 THEN { { l } } ELSE { { l, m } : m \in LossValues }

\* Mutant of MEROps: the interpolation runs before the step on the batch.
MEROpsReptileFirst(n) ==
    << "sample", "store_theta_i_not_w" >>
        \o [ i \in 1 .. n |-> "train" ]
        \o << "with_in_batch_reptile_update", "train@MER_S" >>

\* The external-model calls of a MER iteration with n sampled memory
\* examples, in order: "train" is model.train fed one memory example at
\* args.learning_rate, "train@MER_S" model.train fed the batch at
\* MER_S*args.learning_rate.
MEROps(n) ==
    << "sample", "store_theta_i_not_w" >>
        \o [ i \in 1 .. n |-> "train" ]
        \o << "train@MER_S", "with_in_batch_reptile_update" >>

\* MER: one step per sampled memory example, one amplified step on the batch,
\* then the reptile update.  loss is the loss of the last step.
TrainMER ==
    /\ pc = "train"
    /\ args.imp_method = "MER"
    /\ Snapshot
    /\ er_mem_indices' \in MemSamples(mem_filled_so_far(examples_seen_so_far))
    /\ ops' = SnapshotOps \o MEROps(Cardinality(er_mem_indices'))
    /\ loss' \in LossValues
    /\ step_losses' \in MerStepLosses(Cardinality(er_mem_indices'), loss')
    /\ theta' = theta + 1
    /\ UNCHANGED << star_vars, task_updates_calls >>
    /\ pc' = "update"
    /\ UNCHANGED << loop_vars, mem_vars, anchor_vars, anchor_mem_indices >>

\* ER-Ring: one joint step on the memory sample and the batch.
TrainERRing ==
    /\ pc = "train"
    /\ args.imp_method = "ER-Ring"
    /\ Snapshot
    /\ er_mem_indices' \in MemSamples(mem_filled_so_far(episodic_filled_counter))
    /\ ops' = SnapshotOps \o << "sample", "train" >>
    /\ loss' \in LossValues
    /\ step_losses' = { loss' }
    /\ theta' = theta + 1
    /\ UNCHANGED << star_vars, task_updates_calls >>
    /\ pc' = "update"
    /\ UNCHANGED << loop_vars, mem_vars, anchor_vars, anchor_mem_indices >>

\* ER-Hindsight-Anchors: the batch with the memory sample; after the first
\* task the anchors sampled among those of the earlier tasks feed the
\* anchoring loss.
TrainHindsight ==
    /\ pc = "train"
    /\ args.imp_method = "ER-Hindsight-Anchors"
    /\ Snapshot
    /\ anchor_mem_indices' \in MemSamples(anchors_counter)
    /\ er_mem_indices' \in MemSamples(mem_filled_so_far(episodic_filled_counter))
    /\ ops' = SnapshotOps \o << "sample" >>
                \o (IF task = 0 THEN << "train" >> ELSE << "train_anchor" >>)
    /\ loss' \in LossValues
    /\ step_losses' = { loss' }
    /\ theta' = theta + 1
    /\ UNCHANGED << star_vars, task_updates_calls >>
    /\ pc' = "update"
    /\ UNCHANGED << loop_vars, mem_vars, anchor_vars >>

\* A name in MODELS that no branch of the loop handles (S-GEM): nothing is
\* trained and nothing is assigned to loss.
TrainUnhandled ==
    /\ pc = "train"
    /\ args.imp_method \notin { "VAN", "FTR_EXT", "EWC", "PI", "MAS", "RWALK",
                                "A-GEM", "ER-Reservoir", "MER", "ER-Ring",
                                "ER-Hindsight-Anchors" }
    /\ Snapshot
    /\ ops' = SnapshotOps
    /\ pc' = "check"
    /\ UNCHANGED << loop_vars, mem_vars, anchor_vars, sample_vars, loss, step_losses,
                    model_vars >>

\* The episodic FIFO call that ends the A-GEM, ER-Ring and
\* ER-Hindsight-Anchors branches.
FifoOffer ==
    LET u == update_fifo_buffer(OfferedRows, episodic_images, EpisodicRing,
                                count_cls, episodic_filled_counter)
    IN  /\ episodic_images' = u.mem
        /\ count_cls' = u.cnt
        /\ offered' = Record(OfferedRows, offered)
        /\ UNCHANGED << episodic_filled_counter, examples_seen_so_far, draws >>

\* A-GEM, ER-Ring: put the batch in the FIFO ring buffer.
UpdateFifo ==
    /\ pc = "update"
    /\ args.imp_method \in { "A-GEM", "ER-Ring" }
    /\ FifoOffer
    /\ ops' = << "update_fifo_buffer" >>
    /\ er_mem_indices' = {} /\ anchor_mem_indices' = {}
    /\ pc' = "check"
    /\ UNCHANGED << loop_vars, anchor_vars, acc_vars, loss, step_losses, model_vars >>

\* Mutant of SeenAfter: the result of the reservoir call is dropped.
SeenAfterDropped(o) == examples_seen_so_far

\* examples_seen_so_far = update_reservior(...): the value assigned
SeenAfter(o) == o.N

\* ER-Reservoir, MER: the reservoir update; its result is assigned to
\* examples_seen_so_far.
UpdateReservoir ==
    /\ pc = "update"
    /\ args.imp_method \in { "ER-Reservoir", "MER" }
    /\ \E o \in update_reservior(OfferedRows, episodic_images, ReservoirCapacity,
                                 examples_seen_so_far) :
           /\ episodic_images' = o.mem
           /\ examples_seen_so_far' = SeenAfter(o)
           /\ draws' = o.draws
    /\ ops' = << "update_reservior" >>
    /\ er_mem_indices' = {} /\ anchor_mem_indices' = {}
    /\ pc' = "check"
    /\ UNCHANGED << loop_vars, count_cls, episodic_filled_counter, offered,
                    anchor_vars, acc_vars, loss, step_losses, model_vars >>

\* ER-Hindsight-Anchors: in the first task the batch goes to the anchor buffer
\* through the FIFO update with one slot per class; then the average image
\* vectors and the episodic FIFO.
UpdateHindsight ==
    /\ pc = "update"
    /\ args.imp_method = "ER-Hindsight-Anchors"
    /\ IF task = 0
       THEN LET a == update_fifo_buffer(OfferedRows, anchor_images, AnchorRing,
                                        anchor_count_cls, anchors_counter)
            IN  /\ anchor_images' = a.mem
                /\ anchor_count_cls' = a.cnt
                /\ anchor_writes' = Note(a.written, "train", anchor_writes)
                /\ ops' = << "update_fifo_buffer(anchors)",
                             "update_avg_image_vectors", "update_fifo_buffer" >>
       ELSE /\ UNCHANGED << anchor_images, anchor_count_cls, anchor_writes >>
            /\ ops' = << "update_avg_image_vectors", "update_fifo_buffer" >>
    /\ avg_img_vectors' = update_avg_image_vectors(OfferedRows, avg_img_vectors)
    /\ FifoOffer
    /\ er_mem_indices' = {} /\ anchor_mem_indices' = {}
    /\ pc' = "check"
    /\ UNCHANGED << loop_vars, acc_vars, loss, step_losses, model_vars >>

\* math.isnan(loss)
isnan(l) == l = "nan"

\* The end of the iteration: the loss is printed every 10 iterations and
\* tested for NaN.  Reading loss before any branch has assigned it raises
\* UnboundLocalError; a NaN loss ends the process (sys.exit).
CheckLoss ==
    /\ pc = "check"
    /\ ops' = << >>
    /\ IF loss = "unbound"
       THEN pc' = "raised" /\ iters' = iters
       ELSE IF isnan(loss)
       THEN pc' = "aborted" /\ iters' = iters
       ELSE IF iters + 1 < num_iters
       THEN pc' = "train" /\ iters' = iters + 1
       ELSE pc' = "after_train" /\ iters' = iters
    /\ draws' = << >>
    /\ step_losses' = {}
    /\ UNCHANGED << args, config_error, np_seed, runid, task, train_y,
                    episodic_images, count_cls, episodic_filled_counter,
                    examples_seen_so_far, offered, anchor_vars, sample_vars,
                    acc_vars, loss, model_vars >>

(***************************************************************************)
(* After the training loop of a task.                                      *)
(***************************************************************************)
\* Mutant of avg_img_vectors_reset: the averages are reset where the anchors
\* are generated, and so not after the first task.
avg_img_vectors_reset_with_anchors ==
    IF task = 0 THEN avg_img_vectors ELSE NoAverage

\* avg_img_vectors[:] = 0.0
avg_img_vectors_reset == NoAverage

\* Mutant of filled_counter_step: the ring of one class instead of the block
\* of a task.
filled_counter_step_one_ring == mem_size

\* episodic_filled_counter += args.mem_size * TOTAL_CLASSES: the increment
filled_counter_step == mem_size * TOTAL_CLASSES

\* Anchor generation (ER-Hindsight-Anchors) and the advance of the episodic
\* filled counter.
AfterTraining ==
    /\ pc = "after_train"
    /\ IF args.imp_method = "ER-Hindsight-Anchors"
       THEN /\ IF task = 0
               THEN /\ UNCHANGED << anchor_images, anchor_writes >>
                    /\ ops' = << >>
               ELSE LET anchor_x == normalize_tensors(
                                        er_mem_update_hindsight(episodic_images))
                        block == { anchors_counter + c : c \in Classes }
                    IN  /\ anchor_images' =
                             [ i \in (DOMAIN anchor_images) \cup block |->
                                 IF i \in block THEN anchor_x[i - anchors_counter]
                                 ELSE anchor_images[i] ]
                        /\ anchor_writes' =
                             Note([ k \in 1 .. TOTAL_CLASSES |-> anchors_counter + k - 1 ],
                                  "after", anchor_writes)
                        /\ ops' = << "er_mem_update_hindsight", "normalize_tensors" >>
            /\ avg_img_vectors' = avg_img_vectors_reset
       ELSE /\ UNCHANGED << anchor_images, anchor_writes, avg_img_vectors >>
            /\ ops' = << >>
    /\ episodic_filled_counter' =
           IF use_episodic_memory
           THEN episodic_filled_counter + filled_counter_step
           ELSE episodic_filled_counter
    /\ pc' = "task_updates"
    /\ UNCHANGED << args, config_error, run_vars, episodic_images, count_cls,
                    examples_seen_so_far, offered, draws, anchor_count_cls,
                    sample_vars, acc_vars, loss, step_losses, model_vars >>

\* Mutant of TaskUpdates: the evaluation of the task is skipped.
TaskUpdatesThenNoEval ==
    /\ pc = "task_updates"
    /\ ops' = IF task < num_tasks - 1 \/ MEASURE_PERF_ON_EPS_MEMORY
              THEN << "task_updates" >> ELSE << >>
    /\ pc' = "reset_optimizer"
    /\ IF task < num_tasks - 1 \/ MEASURE_PERF_ON_EPS_MEMORY
       THEN /\ star_vars' = set_star_vars
            /\ task_updates_calls' =
                   Append(task_updates_calls,
                          [ task |-> task, images |-> task_train_images ])
       ELSE UNCHANGED << star_vars, task_updates_calls >>
    /\ UNCHANGED << args, config_error, run_vars, mem_vars, anchor_vars,
                    sample_vars, acc_vars, loss, step_losses, theta >>

\* The inter-task update of the external model, skipped after the last task.
TaskUpdates ==
    /\ pc = "task_updates"
    /\ ops' = IF task < num_tasks - 1 \/ MEASURE_PERF_ON_EPS_MEMORY
              THEN << "task_updates" >> ELSE << >>
    /\ pc' = "eval"
    /\ IF task < num_tasks - 1 \/ MEASURE_PERF_ON_EPS_MEMORY
       THEN /\ star_vars' = set_star_vars
            /\ task_updates_calls' =
                   Append(task_updates_calls,
                          [ task |-> task, images |-> task_train_images ])
       ELSE UNCHANGED << star_vars, task_updates_calls >>
    /\ UNCHANGED << args, config_error, run_vars, mem_vars, anchor_vars,
                    sample_vars, acc_vars, loss, step_losses, theta >>

\* The evaluation after the task and evals.append(ftask).  ftask is kept as
\* the list of the accuracy vectors it is made of; an entry of evals records
\* whether it is a stack of vectors (np.array of the list of snapshots, two
\* dimensions) or the one vector test_task_sequence returned (one dimension).
Evaluate ==
    /\ pc = "eval"
    /\ ops' = << "test_task_sequence" >>
    /\ IF args.train_single_epoch /\ ~args.cross_validate_mode
       THEN /\ ftask' = Append(ftask, test_task_sequence)
            /\ evals' = Append(evals, [ kind |-> "stack", rows |-> ftask' ])
       ELSE /\ ftask' = << test_task_sequence >>
            /\ evals' = Append(evals, [ kind |-> "vector", rows |-> ftask' ])
    /\ pc' = "reset_optimizer"
    /\ UNCHANGED << args, config_error, run_vars, mem_vars, anchor_vars,
                    sample_vars, runs, loss, step_losses, model_vars >>

\* model.reset_optimizer, then the next task or the end of the run.
ResetOptimizer ==
    /\ pc = "reset_optimizer"
    /\ ops' = << "reset_optimizer" >>
    /\ IF task + 1 < num_tasks
       THEN task' = task + 1 /\ pc' = "load"
       ELSE task' = task /\ pc' = "run_end"
    /\ UNCHANGED << args, config_error, np_seed, runid, iters, train_y, mem_vars,
                    anchor_vars, sample_vars, acc_vars, loss, step_losses, model_vars >>

\* runs.append(np.array(evals)), then the next run or the return.
EndRun ==
    /\ pc = "run_end"
    /\ runs' = Append(runs, evals)
    /\ ops' = << >>
    /\ IF runid + 1 < NUM_RUNS
       THEN runid' = runid + 1 /\ pc' = "run_start"
       ELSE runid' = runid /\ pc' = "done"
    /\ UNCHANGED << args, config_error, np_seed, task, iters, train_y, mem_vars,
                    anchor_vars, sample_vars, ftask, evals, loss, step_losses, model_vars >>

Next ==
    \/ Main
    \/ StartRun
    \/ LoadTask
    \/ TrainNoMemory
    \/ TrainAGEM
    \/ TrainERReservoir
    \/ TrainMER
    \/ TrainERRing
    \/ TrainHindsight
    \/ TrainUnhandled
    \/ UpdateFifo
    \/ UpdateReservoir
    \/ UpdateHindsight
    \/ CheckLoss
    \/ AfterTraining
    \/ TaskUpdates
    \/ Evaluate
    \/ ResetOptimizer
    \/ EndRun

Spec == Init /\ [][Next]_vars

(***************************************************************************)
(* Properties.                                                             *)
(***************************************************************************)
FifoMethods == { "A-GEM", "ER-Ring", "ER-Hindsight-Anchors" }
ReservoirMethods == { "ER-Reservoir", "MER" }
InLoop == pc \in { "train", "update", "check", "after_train" }

Last(s) == s[Len(s)]
Suffix(s, n) == SubSeq(s, Len(s) - n + 1, Len(s))

\* The indices of memory mem that hold an example of class c of task t.
Residents(mem, t, c) == { i \in DOMAIN mem : mem[i].t = t /\ mem[i].y = c }

\* The ring of class c in the block of the current task, oldest example
\* first: the slots from the write cursor on, cyclically, that hold an
\* example of the current task.
RingSlots(c) ==
    [ k \in 1 .. EpisodicRing |->
        episodic_filled_counter + EpisodicRing * c
            + ((count_cls[c] + k - 1) % EpisodicRing) ]

RECURSIVE Held(_)
Held(slots) ==
    IF slots = << >> THEN << >>
    ELSE (IF Head(slots) \in DOMAIN episodic_images
             /\ episodic_images[Head(slots)].t = task
          THEN << episodic_images[Head(slots)] >> ELSE << >>)
         \o Held(Tail(slots))

\* C1: under A-GEM, ER-Ring and ER-Hindsight-Anchors no class ring (the
\* examples of one class kept for one task) ever holds more than
\* mem_per_class examples, and during a task the ring of a class holds
\* exactly the last min(n, mem_per_class) of the n examples of that class
\* offered so far in the task, oldest first: a full ring loses its oldest
\* example to the next offer.
FifoRingBound ==
    args.imp_method \in FifoMethods =>
        /\ \A t \in Tasks : \A c \in Classes :
               Cardinality(Residents(episodic_images, t, c)) <= mem_size
        /\ InLoop =>
               \A c \in Classes :
                   Held(RingSlots(c))
                       = Suffix(offered[c], Min(Len(offered[c]), mem_size))

\* C1 witness: a fourth example of one class has been offered to a ring of
\* two in one task (e1, e2, e3, e4 leaves e3, e4).
FifoRingWrapped ==
    /\ args.imp_method = "ER-Ring"
    /\ pc = "check"
    /\ \E c \in Classes :
           /\ Len(offered[c]) >= mem_size + 2
           /\ Held(RingSlots(c)) = Suffix(offered[c], mem_size)

\* C2: under ER-Reservoir and MER the number of resident examples never
\* exceeds episodic_mem_size, every resident example sits inside the
\* allocated array, and the resident count the sampler assumes,
\* min(examples_seen_so_far, episodic_mem_size), never exceeds it either.
ReservoirCapacityBound ==
    args.imp_method \in ReservoirMethods =>
        /\ Cardinality(DOMAIN episodic_images) <= episodic_mem_size
        /\ DOMAIN episodic_images \subseteq 0 .. (episodic_mem_size - 1)
        /\ mem_filled_so_far(examples_seen_so_far) <= episodic_mem_size

\* C2 witness: more examples have been offered than the reservoir holds.
ReservoirOverflowed ==
    /\ args.imp_method = "MER"
    /\ pc = "check"
    /\ examples_seen_so_far > episodic_mem_size
    /\ Cardinality(DOMAIN episodic_images) = episodic_mem_size

\* The effect of one reservoir offer as the design document words it: the
\* examples in order, example number n (counting from 0) appended at slot n
\* while n < capacity, and otherwise written to the drawn slot j if and only
\* if j < capacity, every other slot left alone.
RECURSIVE OfferInOrder(_, _, _, _)
OfferInOrder(images, mem, n, js) ==
    IF images = << >> THEN mem
    ELSE OfferInOrder(
             Tail(images),
             IF n < episodic_mem_size THEN Put(mem, n, Head(images))
             ELSE IF Head(js) < episodic_mem_size THEN Put(mem, Head(js), Head(images))
             ELSE mem,
             n + 1, Tail(js))

\* C3: a reservoir offer takes the rows of the batch in order; a row is
\* appended while the buffer is not full, and otherwise an index j between 0
\* and the number of examples seen is drawn and slot j is overwritten if and
\* only if j < capacity, all other slots unchanged; examples_seen_so_far grows
\* by exactly the number of rows offered.
ReservoirOfferStep ==
    [][ (pc = "update" /\ args.imp_method \in ReservoirMethods) =>
          /\ examples_seen_so_far' = examples_seen_so_far + Len(OfferedRows)
          /\ Len(draws') = Len(OfferedRows)
          /\ \A k \in 1 .. Len(draws') :
                 IF examples_seen_so_far + k - 1 < episodic_mem_size
                 THEN draws'[k] = -1
                 ELSE draws'[k] \in 0 .. (examples_seen_so_far + k)
          /\ episodic_images'
                 = OfferInOrder(OfferedRows, episodic_images,
                                examples_seen_so_far, draws') ]_vars

\* C3 witness: in one offer to the full reservoir one row has replaced slot 0
\* and another row, whose draw fell outside the buffer, has been dropped.
ReservoirReplacedAndDropped ==
    /\ args.imp_method = "ER-Reservoir"
    /\ pc = "check"
    /\ \E k, m \in 1 .. Len(draws) :
           /\ draws[k] = 0
           /\ draws[m] >= episodic_mem_size
           /\ episodic_images[0] = OfferedRows[k]

MemoryMethods == FifoMethods \cup ReservoirMethods

\* A memory sample has just been drawn for the training step.
SampleDrawn ==
    /\ pc = "update"
    /\ args.imp_method \in MemoryMethods
    /\ args.imp_method = "A-GEM" => task > 0

\* C4: whenever a memory-using strategy has drawn its memory sample, the
\* sample has exactly min(eps_mem_batch, r) indices, r the number of resident
\* examples, and every index is that of a slot holding an offered example (a
\* sample is a set of indices here, so its indices are distinct).
SampleIsResident ==
    SampleDrawn =>
        /\ Cardinality(er_mem_indices)
               = Min(eps_mem_batch, Cardinality(DOMAIN episodic_images))
        /\ er_mem_indices \subseteq DOMAIN episodic_images

\* C5: once a training iteration has returned a non-finite loss nothing but
\* the rest of that iteration runs: the driver is never again at a training
\* step, an inter-task update or an evaluation.
DivergenceAborts ==
    loss \in { "nan", "inf" } => pc \in { "update", "check", "aborted" }

\* C6: for every strategy name of MODELS an iteration reaches the loss report
\* with a loss assigned, and never raises.
IterationYieldsLoss ==
    /\ pc = "check" => loss # "unbound"
    /\ pc # "raised"

InvalidArgs ==
    \/ args.arch \notin VALID_ARCHS
    \/ args.imp_method \notin MODELS
    \/ args.optim \notin VALID_OPTIMS

\* C7: with an architecture, strategy or optimizer name that is not
\* supported, main raises before anything is started: no meta-data snapshot,
\* no seed, no run, task, training step or evaluation.
ConfigErrorsAreFatal ==
    InvalidArgs =>
        /\ pc \in { "main", "config_error" }
        /\ pc = "config_error" =>
               \/ config_error = "arch" /\ args.arch \notin VALID_ARCHS
               \/ config_error = "imp_method" /\ args.imp_method \notin MODELS
               \/ config_error = "optim" /\ args.optim \notin VALID_OPTIMS
        /\ ops = << >> /\ np_seed = -1 /\ loss = "unbound"
        /\ ftask = << >> /\ evals = << >> /\ runs = << >>

\* C7 witness: main has raised for an optimizer name alone.
OptimizerRejected ==
    /\ pc = "config_error"
    /\ config_error = "optim"
    /\ args.arch \in VALID_ARCHS /\ args.imp_method \in MODELS

\* The successors of each position: LOAD, the training loop (train, update,
\* check), the inter-task update (after_train, task_updates), EVAL.
Follows ==
    { << "main", "run_start" >>, << "main", "config_error" >>,
      << "run_start", "load" >>, << "load", "train" >>,
      << "train", "update" >>, << "train", "check" >>, << "update", "check" >>,
      << "check", "train" >>, << "check", "after_train" >>,
      << "check", "aborted" >>, << "check", "raised" >>,
      << "after_train", "task_updates" >>, << "task_updates", "eval" >>,
      << "eval", "reset_optimizer" >>, << "reset_optimizer", "load" >>,
      << "reset_optimizer", "run_end" >>, << "run_end", "run_start" >>,
      << "run_end", "done" >> }

\* C8: in every run the tasks are taken in increasing order and each goes
\* through LOAD, its whole training loop, the inter-task update and EVAL in
\* that order; a task is loaded and trained only when every earlier task has
\* its evaluation recorded, and the run ends only after the last task's.
PhaseOrder ==
    [][ /\ << pc, pc' >> \in Follows
        /\ \/ task' = task
           \/ pc = "reset_optimizer" /\ pc' = "load" /\ task' = task + 1
           \/ pc = "run_start" /\ task' = 0
        /\ pc = "load" => iters' = 0
        /\ (pc = "check" /\ pc' = "train") =>
               iters' = iters + 1 /\ iters' < num_iters
        /\ (pc = "check" /\ pc' = "after_train") => iters = num_iters - 1
        /\ pc' \in { "load", "train", "update", "check", "after_train",
                     "task_updates", "eval" } => Len(evals') = task'
        /\ pc = "eval" => Len(evals') = task + 1
        /\ pc' = "run_end" => Len(evals') = num_tasks /\ task' = num_tasks - 1
        /\ pc' = "done" => Len(runs') = NUM_RUNS ]_vars

\* C8 witness: every run has gone through every task.
AllRunsDone ==
    /\ pc = "done"
    /\ Len(runs) = NUM_RUNS
    /\ \A k \in 1 .. Len(runs) : Len(runs[k]) = num_tasks

Writes(i) == IF i \in DOMAIN anchor_writes THEN anchor_writes[i] ELSE << >>
BlockOf(i) == i \div TOTAL_CLASSES
PhaseOfBlock(b) == IF b = 0 THEN "train" ELSE "after"

Generated(t) ==
    \/ task > t
    \/ task = t /\ pc \in { "task_updates", "eval", "reset_optimizer",
                            "run_end", "done" }

AfterTaskZero ==
    /\ args.imp_method = "ER-Hindsight-Anchors"
    /\ task = 0
    /\ pc \in { "after_train", "task_updates", "eval", "reset_optimizer" }

GeneratedAnchorsDefined ==
    \A i \in DOMAIN anchor_images :
        BlockOf(i) > 0 => anchor_images[i].val \in { "unit", "zero" }

\* The positions whose step draws from np.random: the shuffle of the split
\* (load), the memory and anchor samples (train), the reservoir draws (update).
Drawing == pc \in { "load", "train", "update" }

IsAccuracyVector(v, th) ==
    /\ Len(v) = num_tasks
    /\ \A k \in 1 .. Len(v) : v[k].task = k - 1 /\ v[k].theta = th

\* C13: a call of test_task_sequence, be it the evaluation after a task or
\* the snapshot before a training step, leaves the stored parameters, the
\* episodic memory, the anchor buffer, every fill counter and write cursor
\* and the average image vectors as they were, and returns one accuracy per
\* task index in task order, measured on the parameters as they were before
\* the call; the parameters are the same after the evaluation, and after a
\* step with a snapshot they differ by that training step alone.
EvaluatorReadOnly ==
    [][ /\ (pc = "eval" \/ (pc = "train" /\ snapshot_now)) =>
               /\ UNCHANGED << star_vars, episodic_images, count_cls,
                               episodic_filled_counter, examples_seen_so_far,
                               anchor_images, anchor_count_cls, avg_img_vectors >>
               /\ ftask' # << >>
               /\ IsAccuracyVector(Last(ftask'), theta)
        /\ pc = "eval" => theta' = theta
        /\ (pc = "train" /\ snapshot_now) =>
               /\ theta' \in { theta, theta + 1 }
               /\ ftask' = Append(ftask, Last(ftask')) ]_vars

\* C13 witness: the second task has been evaluated, after snapshots, with
\* examples in the memory and anchors in the anchor buffer.
EvaluatedWithFullBuffers ==
    /\ args.imp_method = "ER-Hindsight-Anchors"
    /\ pc = "reset_optimizer"
    /\ task = 1
    /\ Len(ftask) >= 2
    /\ IsAccuracyVector(Last(ftask), theta)
    /\ DOMAIN episodic_images # {}
    /\ DOMAIN anchor_images # {}

\* An entry of evals that is a single vector of num_tasks accuracies.
IsSingleVector(e) ==
    /\ e.kind = "vector"
    /\ Len(e.rows) = 1
    /\ Len(e.rows[1]) = num_tasks

\* C14: in every configuration the result has one entry per run, a run has
\* one entry per task trained, in task order, and each entry is a single
\* vector of num_tasks accuracies.
ResultShape ==
    /\ \A k \in 1 .. Len(evals) : IsSingleVector(evals[k])
    /\ \A r \in 1 .. Len(runs) :
           /\ Len(runs[r]) = num_tasks
           /\ \A k \in 1 .. Len(runs[r]) : IsSingleVector(runs[r][k])
    /\ pc = "done" => Len(runs) = NUM_RUNS

\* The length of a task's training loop, the mini-batch of an iteration and
\* the memory sample of a strategy, written without the cross-validation flag.
IterationsOfTask ==
    IF args.train_single_epoch
    THEN (EXAMPLES_PER_TASK + BATCH_SIZE - 1) \div BATCH_SIZE
    ELSE TRAIN_ITERS

BatchOfIteration ==
    LET lo == (iters * BATCH_SIZE) % EXAMPLES_PER_TASK
        hi == Min(lo + BATCH_SIZE, EXAMPLES_PER_TASK)
    IN  [ i \in 1 .. (hi - lo) |->
            [ t |-> task, r |-> lo + i - 1, y |-> train_y[lo + i - 1],
              val |-> "raw" ] ]

SampleBound ==
    IF args.imp_method \in ReservoirMethods
    THEN Min(examples_seen_so_far, episodic_mem_size)
    ELSE IF args.imp_method \in FifoMethods
    THEN Min(episodic_filled_counter, episodic_mem_size)
    ELSE 0

IsSampleOfIteration(S) ==
    IF args.imp_method = "A-GEM" /\ task = 0 THEN S = {}
    ELSE LET bound == SampleBound
         IN  /\ \A i \in S : 0 <= i /\ i < bound
             /\ Cardinality(S) = Min(bound, EPS_MEM_BATCH_SIZE)

\* One step of the driver as far as training goes, in terms that do not read
\* args.cross_validate_mode, ftask, evals or runs.
FlagFreeStep ==
    /\ args' = args
    /\ pc = "load" =>
           /\ pc' = "train" /\ iters' = 0
           /\ theta' = (IF task > 0 THEN star_vars ELSE theta)
    /\ pc = "train" =>
           /\ pc' = (IF args.imp_method \in MemoryMethods THEN "update" ELSE "check")
           /\ theta' = (IF args.imp_method = "S-GEM" THEN theta ELSE theta + 1)
           /\ IsSampleOfIteration(er_mem_indices')
           /\ UNCHANGED << iters, task, star_vars, episodic_images, count_cls,
                           episodic_filled_counter, examples_seen_so_far,
                           anchor_images, anchor_count_cls, avg_img_vectors >>
    /\ pc = "update" =>
           /\ pc' = "check"
           /\ args.imp_method \in FifoMethods =>
                  episodic_images' =
                      update_fifo_buffer(BatchOfIteration, episodic_images, mem_size,
                                         count_cls, episodic_filled_counter).mem
           /\ args.imp_method \in ReservoirMethods =>
                  /\ examples_seen_so_far'
                         = examples_seen_so_far + Len(BatchOfIteration)
                  /\ episodic_images'
                         = OfferInOrder(BatchOfIteration, episodic_images,
                                        examples_seen_so_far, draws')
           /\ UNCHANGED << iters, task, theta, star_vars, loss >>
    /\ pc = "check" =>
           /\ pc' = (IF loss = "unbound" THEN "raised"
                     ELSE IF loss = "nan" THEN "aborted"
                     ELSE IF iters + 1 < IterationsOfTask THEN "train"
                     ELSE "after_train")
           /\ iters' = (IF pc' = "train" THEN iters + 1 ELSE iters)
    /\ pc = "task_updates" =>
           /\ pc' = "eval"
           /\ ops' = (IF task < num_tasks - 1 THEN << "task_updates" >> ELSE << >>)
           /\ star_vars' = (IF task < num_tasks - 1 THEN theta ELSE star_vars)
    /\ pc \in { "eval", "reset_optimizer", "run_end" } =>
           UNCHANGED << theta, star_vars, loss, iters, train_y, np_seed,
                       episodic_images, count_cls, episodic_filled_counter,
                       examples_seen_so_far, anchor_images, anchor_count_cls,
                       avg_img_vectors, er_mem_indices, anchor_mem_indices >>

\* C15: the cross-validation flag decides only whether snapshots are taken
\* and in what form the accuracies are kept.  With or without it every step
\* of the driver changes the training side of the state (position, loop
\* indices, parameters, mini-batch, memory sample, buffers, counters, stored
\* parameters, inter-task update) as the flag-free step relation says.
FlagOnlyChangesCadence == [][ FlagFreeStep ]_vars

\* C15 witness: a single-epoch run under the flag has trained both tasks of
\* a memory strategy and kept one accuracy vector per task, without snapshot.
CrossValidatedRunDone ==
    /\ args.cross_validate_mode /\ args.train_single_epoch
    /\ args.imp_method = "ER-Ring"
    /\ pc = "run_end"
    /\ DOMAIN episodic_images # {}
    /\ \A k \in 1 .. Len(evals) : IsSingleVector(evals[k])
    /\ Len(evals) = num_tasks

\* C16: under A-GEM, ER-Ring and ER-Hindsight-Anchors, after every offer to
\* the FIFO memory, in the middle of a task too, and at the task boundary,
\* the counter that bounds the memory sample, episodic_filled_counter,
\* equals the number of examples resident in the memory.
FillCounterIsResidentCount ==
    (args.imp_method \in FifoMethods
         /\ pc \in { "check", "train", "task_updates" }) =>
        episodic_filled_counter = Cardinality(DOMAIN episodic_images)

\* The slots reserved for class c in the block of the current task.
RingOf(c) ==
    { episodic_filled_counter + mem_size * c + k : k \in 0 .. (mem_size - 1) }

\* The classes of the rows of a batch, and the number of its rows of class c.
ClassesOf(images) == { images[k].y : k \in 1 .. Len(images) }
CountOf(images, c) == Cardinality({ k \in 1 .. Len(images) : images[k].y = c })

\* C17: an offer to the episodic FIFO writes only inside the rings of the
\* classes of the examples offered and moves only their write cursors; every
\* slot of the ring of another class, every slot of another task's block and
\* the cursor of every other class are as before, and an example is never
\* stored in a slot reserved for another class.
FifoClassIsolation ==
    [][ (pc = "update" /\ args.imp_method \in FifoMethods) =>
          /\ DOMAIN episodic_images \subseteq DOMAIN episodic_images'
          /\ \A i \in DOMAIN episodic_images' :
                 (i \notin DOMAIN episodic_images
                      \/ episodic_images'[i] # episodic_images[i]) =>
                     /\ episodic_images'[i].y \in ClassesOf(OfferedRows)
                     /\ i \in RingOf(episodic_images'[i].y)
          /\ \A c \in Classes :
                 count_cls'[c] = (count_cls[c] + CountOf(OfferedRows, c)) % mem_size
          /\ \A c \in Classes \ ClassesOf(OfferedRows) :
                 /\ count_cls'[c] = count_cls[c]
                 /\ \A i \in RingOf(c) :
                        /\ i \in DOMAIN episodic_images' <=> i \in DOMAIN episodic_images
                        /\ i \in DOMAIN episodic_images =>
                               episodic_images'[i] = episodic_images[i]
          /\ episodic_filled_counter' = episodic_filled_counter ]_vars

\* C17 witness: a batch of class 0 alone has been offered to a ring of class 0
\* that was already full, and the ring of class 1 still holds what was
\* offered to it.
FullRingOfferedBesideAnother ==
    /\ args.imp_method = "ER-Ring"
    /\ pc = "check"
    /\ ClassesOf(OfferedRows) = { 0 }
    /\ Len(offered[0]) > mem_size
    /\ offered[1] # << >>
    /\ Held(RingSlots(1)) = offered[1]

\* The number of model.restore calls a step makes.
Restores(o) == Cardinality({ k \in 1 .. Len(o) : o[k] = "restore" })

\* The parameters on which the last recorded evaluation was made.
EvaluatedTheta == Last(Last(evals).rows)[1].theta

\* C18: model.restore is called by the step that loads a task with index
\* above 0, once, and by no other step; a task is loaded once, after the
\* inter-task update, evaluation and optimizer reset of the task before it,
\* and trained only afterwards.  The parameters after the call are the
\* stored ones, which are those the model had right after the inter-task
\* update of the previous task (the ones its evaluation measured).
RestoreAtLoad ==
    [][ /\ Restores(ops') = (IF pc = "load" /\ task > 0 THEN 1 ELSE 0)
        /\ pc' = "load" =>
               \/ pc = "run_start" /\ task' = 0
               \/ pc = "reset_optimizer" /\ task' = task + 1
        /\ pc = "task_updates" => (task < num_tasks - 1 => star_vars' = theta')
        /\ (pc = "load" /\ task > 0) =>
               /\ pc' = "train" /\ iters' = 0
               /\ theta' = star_vars
               /\ Len(evals) = task
               /\ theta' = EvaluatedTheta
        /\ (pc = "load" /\ task = 0) => theta' = theta ]_vars

\* C18 witness: the second task is about to be trained on restored
\* parameters that have gone through the training of the first.
SecondTaskRestored ==
    /\ pc = "train" /\ task = 1 /\ iters = 0
    /\ ops = << "restore" >>
    /\ theta = star_vars
    /\ theta > 0

\* The tasks whose inter-task update is behind the driver in the current run
\* (between two runs the calls of the run that ended are still on record).
UpdatedTasks ==
    IF pc \in { "main", "config_error" } THEN 0
    ELSE IF pc \in { "eval", "reset_optimizer", "run_end" }
    THEN Min(task + 1, num_tasks - 1)
    ELSE Min(task, num_tasks - 1)

\* C19: in a run, model.task_updates has been called exactly once for every
\* task before the last whose training loop is finished, in task order,
\* before that task's evaluation is recorded, each time with the task's own
\* training inputs as the dataset has them (unshuffled, all of them); it is
\* never called for the last task.
TaskUpdatesOncePerTask ==
    /\ pc \notin { "run_start", "done" } =>
           task_updates_calls =
               [ k \in 1 .. UpdatedTasks |->
                   [ task |-> k - 1,
                     images |-> [ task |-> k - 1, order |-> "dataset",
                                  rows |-> "all" ] ] ]
    /\ \A k \in 1 .. Len(task_updates_calls) :
           task_updates_calls[k].task < num_tasks - 1
    /\ pc = "eval" => Len(evals) = task
    /\ (pc = "task_updates" /\ task < num_tasks - 1) =>
           Len(task_updates_calls) = task /\ iters = num_iters - 1

\* C19 witness: the last task has been evaluated; the update was made for
\* the task before it and not for the last.
LastTaskNotUpdated ==
    /\ pc = "reset_optimizer"
    /\ task = num_tasks - 1
    /\ Len(evals) = num_tasks
    /\ Len(task_updates_calls) = num_tasks - 1
    /\ Last(task_updates_calls).task = num_tasks - 2

NonFinite == { "nan", "inf" }

\* C20: when any training step of an iteration has returned a non-finite
\* loss, be it the last step or one of the per-example steps of MER before
\* it, the loss check that ends the iteration aborts the process.
EveryStepLossChecked ==
    [][ (pc = "check" /\ step_losses \cap NonFinite # {}) => pc' = "aborted" ]_vars

\* C21: the step that starts a run leaves the episodic memory, the anchor
\* buffer, the write cursors, the fill counter, examples_seen_so_far and the
\* average image vectors empty or zero and the accuracy list of the run
\* empty, whatever the run before left in them; the list of a task's
\* snapshots is emptied when the task is loaded and a loss is read only in
\* the iteration that assigned it.  The aggregated result alone carries over:
\* it changes only at the end of a run, by the accuracy list of that run.
RunIndependence ==
    [][ /\ pc = "run_start" =>
               /\ episodic_images' = << >>
               /\ anchor_images' = << >>
               /\ count_cls' = ZeroCounts
               /\ anchor_count_cls' = ZeroCounts
               /\ episodic_filled_counter' = 0
               /\ examples_seen_so_far' = 0
               /\ avg_img_vectors' = NoAverage
               /\ evals' = << >>
               /\ runs' = runs
               /\ Len(runs) = runid
        /\ pc = "load" => ftask' = << >>
        /\ (pc = "check" /\ loss # "unbound") => loss \in step_losses
        /\ runs' # runs => (pc = "run_end" /\ runs' = Append(runs, evals)) ]_vars

\* C21 witness: the second run is about to load its first task with empty
\* buffers, the first run having trained and recorded all its tasks.
SecondRunStartsFresh ==
    /\ args.imp_method = "ER-Hindsight-Anchors"
    /\ runid = 1 /\ pc = "load" /\ task = 0
    /\ Len(runs) = 1 /\ Len(runs[1]) = num_tasks
    /\ episodic_images = << >> /\ anchor_images = << >>
    /\ episodic_filled_counter = 0 /\ evals = << >>

\* The rows the driver offers to the reservoir in iteration it of task tk,
\* each stamped with its task, row and iteration (two offers of one row are
\* two elements of the stream).
StreamBatch(tk, it) ==
    [ i \in 1 .. residual(it) |->
        [ t |-> tk, r |-> offset(it) + i - 1, y |-> 0, val |-> it ] ]

\* Every element offered in a run of ni iterations per task up to iteration
\* it of task tk.
Stream(ni, tk, it) ==
    { StreamBatch(x[1], x[2])[x[3]] :
        x \in { y \in (0 .. tk) \X (0 .. (ni - 1)) \X (1 .. batch_size) :
                  /\ y[1] < tk \/ y[2] <= it
                  /\ y[3] <= residual(y[2]) } }

\* The outcomes of the driver's reservoir calls of such a run up to iteration
\* it of task tk, one per sequence of draws: each call is made with the
\* capacity the driver passes and the count the call before returned.  A draw
\* at a given place of the stream has the same number of values in every
\* outcome, so the outcomes are equally likely.
RECURSIVE Worlds(_, _, _)
Worlds(ni, tk, it) ==
    LET before ==
            IF it > 0 THEN Worlds(ni, tk, it - 1)
            ELSE IF tk > 0 THEN Worlds(ni, tk - 1, ni - 1)
            ELSE { [ mem |-> zeros_episodic, N |-> 0, draws |-> << >> ] }
    IN  UNION { { [ mem |-> o.mem, N |-> SeenAfter(o), draws |-> w.draws \o o.draws ] :
                    o \in update_reservior(StreamBatch(tk, it), w.mem,
                                           ReservoirCapacity, w.N) } :
                w \in before }

\* The outcomes for every length of the training loop, task and iteration.
WorldsOfRun ==
    [ ni \in 1 .. TRAIN_ITERS |->
        [ tk \in Tasks |-> [ it \in 0 .. (ni - 1) |-> Worlds(ni, tk, it) ] ] ]

ResidentIn(w, e) == \E i \in DOMAIN w.mem : w.mem[i] = e

\* With n examples offered, every one of them is resident in the fraction
\* min(1, M/n) of the outcomes W, M = episodic_mem_size.
RetainedInProportion(W, stream, n) ==
    /\ \A w \in W : w.N = n
    /\ \A e \in stream :
           Cardinality({ w \in W : ResidentIn(w, e) }) * n
               = Cardinality(W) * Min(n, episodic_mem_size)

RetentionOfRun ==
    [ ni \in 1 .. TRAIN_ITERS |->
        [ tk \in Tasks |->
            [ it \in 0 .. (ni - 1) |->
                RetainedInProportion(WorldsOfRun[ni][tk][it], Stream(ni, tk, it),
                                     Cardinality(Stream(ni, tk, it))) ] ] ]

\* C22: after the offer of any iteration of a run under ER-Reservoir or MER,
\* with n examples offered so far in the run and M = episodic_mem_size, every
\* example offered so far is resident in the fraction min(1, M/n) of the
\* equally likely outcomes of the draws (counted: residents * n = outcomes *
\* min(n, M)); n is the driver's examples_seen_so_far and the memory the
\* driver holds is one of these outcomes.
ReservoirRetention ==
    (pc = "check" /\ args.imp_method \in ReservoirMethods) =>
        LET W == WorldsOfRun[num_iters][task][iters]
        IN  /\ RetentionOfRun[num_iters][task][iters]
            /\ \A w \in W : w.N = examples_seen_so_far
            /\ \E w \in W :
                   /\ DOMAIN w.mem = DOMAIN episodic_images
                   /\ Len(w.draws) >= Len(draws)
                   /\ Suffix(w.draws, Len(draws)) = draws

\* C22 witness: two examples more than the reservoir holds have been offered
\* and the first example of the run is resident in some outcomes and evicted
\* in others.
ReservoirEvictsSometimes ==
    /\ args.imp_method = "ER-Reservoir"
    /\ pc = "check"
    /\ examples_seen_so_far >= episodic_mem_size + 2
    /\ LET W == WorldsOfRun[num_iters][task][iters]
           first == StreamBatch(0, 0)[1]
       IN  /\ \E w \in W : ResidentIn(w, first)
           /\ \E w \in W : ~ResidentIn(w, first)

\* The rows of class c in a batch, in order.
RECURSIVE OfClass(_, _)
OfClass(images, c) ==
    IF images = << >> THEN << >>
    ELSE (IF Head(images).y = c THEN << Head(images) >> ELSE << >>)
         \o OfClass(Tail(images), c)

\* The << task, row >> pairs of the rows of class c in a batch.
RowsOfClass(images, c) ==
    { << images[k].t, images[k].r >> :
        k \in { j \in 1 .. Len(images) : images[j].y = c } }

\* The number of rows the iterations 0 .. it of a task offer.
RECURSIVE OfferedUpTo(_)
OfferedUpTo(it) == IF it < 0 THEN 0 ELSE residual(it) + OfferedUpTo(it - 1)

\* The number of rows on record as offered to the FIFO in the current task.
OfferedCount ==
    Cardinality({ x \in Classes \X (1 .. OfferedUpTo(num_iters - 1)) :
                    x[2] <= Len(offered[x[1]]) })

\* C23: in every iteration 0 <= offset < num_train_examples, 1 <= residual <=
\* batch_size and offset + residual <= num_train_examples; the rows of the
\* current task fed to the training step are rows offset .. offset +
\* residual - 1 of the split, each once and in order, and the memory update
\* of the iteration is offered exactly these rows: once it is done the FIFO
\* has received them class by class and nothing else, the reservoir count
\* has grown by their number, and the average image vectors have taken them.
MiniBatchBounds ==
    pc \in { "train", "update", "check" } =>
        LET fed == TaskRowsFed
            lo == offset(iters)
            len == residual(iters)
            updated == pc = "check"
        IN  /\ 0 <= lo /\ lo < num_train_examples
            /\ 1 <= len /\ len <= batch_size
            /\ lo + len <= num_train_examples
            /\ Len(fed) = len
            /\ \A k \in 1 .. len :
                   fed[k] = [ t |-> task, r |-> lo + k - 1,
                              y |-> train_y[lo + k - 1], val |-> "raw" ]
            /\ OfferedRows = fed
            /\ args.imp_method \in FifoMethods =>
                   /\ OfferedCount = OfferedUpTo(IF updated THEN iters ELSE iters - 1)
                   /\ updated =>
                          \A c \in Classes :
                              LET mine == OfClass(fed, c)
                              IN  /\ Len(offered[c]) >= Len(mine)
                                  /\ Suffix(offered[c], Len(mine)) = mine
            /\ args.imp_method \in ReservoirMethods =>
                   /\ examples_seen_so_far
                          = task * OfferedUpTo(num_iters - 1)
                              + OfferedUpTo(IF updated THEN iters ELSE iters - 1)
                   /\ updated => Len(draws) = len
            /\ (args.imp_method = "ER-Hindsight-Anchors" /\ updated) =>
                   \A c \in Classes : RowsOfClass(fed, c) \subseteq avg_img_vectors[c]

\* C23 witness: the short mini-batch that ends an epoch has been trained on
\* and offered to the FIFO memory, one row and no more.
ShortBatchOffered ==
    /\ args.imp_method = "ER-Ring"
    /\ pc = "check"
    /\ residual(iters) < batch_size
    /\ offset(iters) + residual(iters) = num_train_examples
    /\ Len(OfferedRows) = residual(iters)
    /\ \E c \in Classes :
           offered[c] # << >> /\ Last(offered[c]) = Last(OfferedRows)

MaxSplit == 7
MaxBatch == 8

\* The iterations of a single epoch over n rows in batches of b whose
\* mini-batch holds row r.
BatchesHolding(r, n, b) ==
    { it \in 0 .. (single_epoch_iters(n, b) - 1) :
        /\ offset_at(it, n, b) <= r
        /\ r < offset_at(it, n, b) + residual_at(it, n, b) }

\* The mini-batches of ceil(n / b) iterations hold every row of a split of n
\* rows exactly once, for the sizes up to MaxSplit and MaxBatch.
EpochIsPartition ==
    \A n \in 1 .. MaxSplit : \A b \in 1 .. MaxBatch :
        /\ single_epoch_iters(n, b) * b >= n
        /\ (single_epoch_iters(n, b) - 1) * b < n
        /\ \A r \in 0 .. (n - 1) : Cardinality(BatchesHolding(r, n, b)) = 1

\* The entries of the FIFO record of the current task that are row r.
OfferedEntries(r) ==
    { x \in Classes \X (1 .. num_train_examples) :
        /\ x[2] <= Len(offered[x[1]])
        /\ offered[x[1]][x[2]].r = r }

\* C24: in single-epoch mode the training loop of a task, once through, has
\* run ceil(num_train_examples / batch_size) iterations and every row of the
\* shuffled, truncated split has been in the mini-batch of exactly one of
\* them: under the FIFO strategies each row is on record as offered once,
\* with its label, and under the reservoir strategies the stream has grown by
\* one split; and the mini-batches of ceil(n / b) iterations hold every row
\* of a split of n rows exactly once, for every n and b from 1 up.
SingleEpochCoversOnce ==
    /\ (args.train_single_epoch /\ pc = "after_train") =>
           /\ iters = num_iters - 1
           /\ num_iters * batch_size >= num_train_examples
           /\ (num_iters - 1) * batch_size < num_train_examples
           /\ \A r \in Rows :
                  Cardinality({ it \in 0 .. iters :
                                  /\ offset(it) <= r
                                  /\ r < offset(it) + residual(it) }) = 1
           /\ args.imp_method \in FifoMethods =>
                  \A r \in Rows :
                      /\ Cardinality(OfferedEntries(r)) = 1
                      /\ \A x \in OfferedEntries(r) :
                             /\ x[1] = train_y[r]
                             /\ offered[x[1]][x[2]].t = task
           /\ args.imp_method \in ReservoirMethods =>
                  examples_seen_so_far = (task + 1) * num_train_examples
    /\ EpochIsPartition

\* C24 witness: the single epoch of the second task is through under a FIFO
\* strategy, its last mini-batch a short one, and every row is on record.
EpochDoneWithShortBatch ==
    /\ args.train_single_epoch
    /\ args.imp_method = "ER-Ring"
    /\ pc = "after_train" /\ task = 1
    /\ residual(iters) < batch_size
    /\ OfferedCount = num_train_examples

\* The places of a call in the calls of a step.
Places(o, name) == { k \in 1 .. Len(o) : o[k] = name }

TrainingCalls == { "train", "train_first_task", "train_subseq_tasks",
                   "train_classifier", "train_anchor", "train@MER_S" }

\* C25: under A-GEM the training step of every iteration of a task t > 0
\* draws a memory sample, stores the reference gradient once and only then
\* runs the projecting step, once; in task 0 it stores no reference gradient
\* and runs the plain first-task step, without a sample; the episodic FIFO
\* is as it was until the training step is done and receives the realized
\* batch in the step that follows, which trains nothing.
AGEMOrdering ==
    [][ /\ (pc = "train" /\ args.imp_method = "A-GEM") =>
               /\ pc' = "update"
               /\ UNCHANGED << episodic_images, count_cls, offered >>
               /\ theta' = theta + 1
               /\ IF task = 0
                  THEN /\ Places(ops', "store_ref_grads") = {}
                       /\ Places(ops', "train_subseq_tasks") = {}
                       /\ Cardinality(Places(ops', "train_first_task")) = 1
                       /\ er_mem_indices' = {}
                  ELSE /\ Places(ops', "train_first_task") = {}
                       /\ Cardinality(Places(ops', "sample")) = 1
                       /\ Cardinality(Places(ops', "store_ref_grads")) = 1
                       /\ Cardinality(Places(ops', "train_subseq_tasks")) = 1
                       /\ \A i \in Places(ops', "sample") :
                          \A j \in Places(ops', "store_ref_grads") :
                          \A k \in Places(ops', "train_subseq_tasks") :
                              i < j /\ j < k
                       /\ er_mem_indices' # {}
                       /\ er_mem_indices' \subseteq 0 .. (episodic_filled_counter - 1)
        /\ (pc = "update" /\ args.imp_method = "A-GEM") =>
               /\ ops' = << "update_fifo_buffer" >>
               /\ theta' = theta
               /\ offered' = Record(OfferedRows, offered)
               /\ episodic_images' =
                      update_fifo_buffer(OfferedRows, episodic_images, mem_size,
                                         count_cls, episodic_filled_counter).mem
        /\ (args.imp_method = "A-GEM" /\ pc # "train") =>
               \A k \in 1 .. Len(ops') : ops'[k] \notin TrainingCalls \cup { "store_ref_grads" }
        /\ args.imp_method # "A-GEM" => Places(ops', "store_ref_grads") = {} ]_vars

\* C25 witness: in the second task the reference gradient has been stored
\* from a memory sample and the projecting step has run; the FIFO update of
\* the iteration is still to come.
RefGradStoredBeforeStep ==
    /\ args.imp_method = "A-GEM"
    /\ pc = "update" /\ task = 1
    /\ er_mem_indices # {}
    /\ Suffix(ops, 3) = << "sample", "store_ref_grads", "train_subseq_tasks" >>

\* The calls of a step after the snapshot, if one was taken.
AfterSnapshot(o) ==
    IF o # << >> /\ Head(o) = "test_task_sequence" THEN Tail(o) ELSE o

\* C26: an iteration of MER samples memory, saves the parameters, runs one
\* step at the base learning rate for each sampled example, as many as
\* min(eps_mem_batch, resident examples), then one step on the batch at the
\* amplified rate, then the reptile interpolation, in this order and nothing
\* else; the reservoir is as it was until then and is offered the realized
\* batch by the step that follows, which trains nothing.
MERProtocol ==
    [][ /\ (pc = "train" /\ args.imp_method = "MER") =>
               LET k == Min(eps_mem_batch, Cardinality(DOMAIN episodic_images))
                   o == AfterSnapshot(ops')
               IN  /\ Len(o) = k + 4
                   /\ o[1] = "sample" /\ o[2] = "store_theta_i_not_w"
                   /\ \A i \in 3 .. (k + 2) : o[i] = "train"
                   /\ o[k + 3] = "train@MER_S"
                   /\ o[k + 4] = "with_in_batch_reptile_update"
                   /\ Cardinality(er_mem_indices') = k
                   /\ er_mem_indices' \subseteq DOMAIN episodic_images
                   /\ UNCHANGED << episodic_images, examples_seen_so_far >>
                   /\ pc' = "update"
        /\ (pc = "update" /\ args.imp_method = "MER") =>
               /\ ops' = << "update_reservior" >>
               /\ theta' = theta
               /\ examples_seen_so_far' = examples_seen_so_far + Len(OfferedRows)
               /\ episodic_images' = OfferInOrder(OfferedRows, episodic_images,
                                                  examples_seen_so_far, draws')
               /\ pc' = "check"
        /\ (args.imp_method = "MER" /\ pc # "train") =>
               \A i \in 1 .. Len(ops') :
                   ops'[i] \notin TrainingCalls
                       \cup { "store_theta_i_not_w", "with_in_batch_reptile_update" } ]_vars

\* C26 witness: an iteration of MER with more resident examples than
\* eps_mem_batch has run its micro-steps, the step on the batch and the
\* interpolation; the reservoir update is still to come.
MERIterationTrained ==
    /\ args.imp_method = "MER"
    /\ pc = "update"
    /\ Cardinality(DOMAIN episodic_images) > eps_mem_batch
    /\ Cardinality(er_mem_indices) = eps_mem_batch
    /\ Suffix(ops, eps_mem_batch + 4) = MEROps(eps_mem_batch)

\* C27: under ER-Hindsight-Anchors the training step of an iteration of task
\* 0 draws no memory index and no anchor index, so that its batch is the
\* mini-batch of the task alone, and runs the plain step, without the
\* anchoring loss; the training step of an iteration of a task t > 0 draws
\* min(eps_mem_batch, t * TOTAL_CLASSES) distinct anchor indices, all in
\* 0 .. t * TOTAL_CLASSES - 1, the slots of the tasks before t, and runs the
\* anchoring step; it reads the anchor buffer and does not write it.
HindsightBatches ==
    [][ (pc = "train" /\ args.imp_method = "ER-Hindsight-Anchors") =>
          /\ IF task = 0
             THEN /\ er_mem_indices' = {}
                  /\ anchor_mem_indices' = {}
                  /\ Places(ops', "train_anchor") = {}
                  /\ Cardinality(Places(ops', "train")) = 1
             ELSE /\ \A i \in anchor_mem_indices' :
                         /\ 0 <= i /\ i < task * TOTAL_CLASSES
                         /\ BlockOf(i) < task
                  /\ Cardinality(anchor_mem_indices')
                         = Min(eps_mem_batch, task * TOTAL_CLASSES)
                  /\ Cardinality(anchor_mem_indices') <= eps_mem_batch
                  /\ Cardinality(er_mem_indices') <= eps_mem_batch
                  /\ Places(ops', "train") = {}
                  /\ Cardinality(Places(ops', "train_anchor")) = 1
          /\ UNCHANGED << anchor_images, anchor_count_cls, episodic_images >>
          /\ pc' = "update" ]_vars

\* C27 witness: an iteration of the second task has drawn an anchor of the
\* first task, and memory rows, for the anchoring step.
AnchorOfEarlierTaskSampled ==
    /\ args.imp_method = "ER-Hindsight-Anchors"
    /\ pc = "update" /\ task = 1
    /\ anchor_mem_indices # {}
    /\ \A i \in anchor_mem_indices : BlockOf(i) = 0
    /\ er_mem_indices # {}
    /\ Last(ops) = "train_anchor"

\* The << task, row >> pairs of the examples of a sequence.
PairsOf(images) == { << images[k].t, images[k].r >> : k \in 1 .. Len(images) }

\* C28: under ER-Hindsight-Anchors the average image vectors are all zero
\* whenever the driver is between the training loops of two tasks, so at the
\* start of every loop, that of task 0 included, and after every task, the
\* first, for which no anchor is generated, included; inside the loop of a
\* task the average of a class is made of the rows of that class of the
\* task's mini-batches realized so far and of nothing else.
AverageVectorsPerTask ==
    args.imp_method = "ER-Hindsight-Anchors" =>
        /\ pc \in { "run_start", "load", "task_updates", "eval",
                     "reset_optimizer", "run_end", "done" } =>
               avg_img_vectors = NoAverage
        /\ (pc = "train" /\ iters = 0) => avg_img_vectors = NoAverage
        /\ pc \in { "train", "update", "check", "after_train" } =>
               \A c \in Classes :
                   /\ avg_img_vectors[c] = PairsOf(offered[c])
                   /\ \A x \in avg_img_vectors[c] :
                          x[1] = task /\ train_y[x[2]] = c

\* C28 witness: the averages are zero again after the first task, whose
\* training loop had blended rows into them and for which no anchor is
\* generated.
AveragesResetAfterFirstTask ==
    /\ args.imp_method = "ER-Hindsight-Anchors"
    /\ pc = "task_updates" /\ task = 0
    /\ avg_img_vectors = NoAverage
    /\ \A c \in Classes : offered[c] # << >>
    /\ \A i \in DOMAIN anchor_writes : Last(anchor_writes[i])[2] = "train"

\* C29: in a run of a strategy with memory episodic_filled_counter is
\* t * mem_size * TOTAL_CLASSES from the loading of task t to the end of its
\* training loop and (t + 1) * mem_size * TOTAL_CLASSES from then to the
\* loading of the next task, so it changes only at the task boundary, by
\* mem_size * TOTAL_CLASSES, and never exceeds episodic_mem_size; and every
\* memory index sampled is an index of the allocated episodic arrays.
FillCounterBounds ==
    use_episodic_memory =>
        /\ pc \in { "load", "train", "update", "check", "after_train",
                    "aborted", "raised" } =>
               episodic_filled_counter = task * mem_size * TOTAL_CLASSES
        /\ pc \in { "task_updates", "eval", "reset_optimizer", "run_end", "done" } =>
               episodic_filled_counter = (task + 1) * mem_size * TOTAL_CLASSES
        /\ episodic_filled_counter <= episodic_mem_size
        /\ episodic_mem_size = mem_size * num_tasks * TOTAL_CLASSES
        /\ \A i \in er_mem_indices : 0 <= i /\ i < episodic_mem_size
        /\ (pc = "update" /\ args.imp_method \in FifoMethods) =>
               \A i \in er_mem_indices : i < episodic_filled_counter

\* C29 witness: in the last task a memory sample has been drawn below the
\* counter, which stands at the blocks of the tasks before.
SampledBelowCounterInLastTask ==
    /\ args.imp_method = "ER-Ring"
    /\ pc = "update" /\ task = num_tasks - 1
    /\ episodic_filled_counter = (num_tasks - 1) * mem_size * TOTAL_CLASSES
    /\ er_mem_indices # {}
    /\ \A i \in er_mem_indices : i < episodic_filled_counter

====
